---- MODULE Spec2Model ----
(***************************************************************************)
(* Connection-lifecycle state machine of ITagClient (coordinator.py): the  *)
(* advertisement watch, connect() with its two tiers behind _connect_lock, *)
(* the disconnect callback, disconnect(), the keepalive task and the       *)
(* beep / read_battery operations.                                         *)
(*                                                                         *)
(* Coroutines are modelled one step per await point: everything a          *)
(* coroutine does between two awaits is one action (the host loop runs it  *)
(* without interruption).  The disconnect callback is invoked by the       *)
(* transport outside the host loop, so its statements are separate steps   *)
(* that interleave with the host's.                                        *)
(***************************************************************************)
EXTENDS Integers, Sequences, FiniteSets, TLC

\* ---------------------------------------------------------------- bounds
MaxTasks == 2      \* coroutines (connect / beep / read_battery / disconnect) ever started
MaxConns == 3      \* transport connections ever established
MaxKA    == 2      \* keepalive tasks ever created
MaxReading == 3       \* largest reading of the monotonic clock (seconds) in Spec
MaxWatchReading == 6  \* largest reading of the monotonic clock (seconds) in SpecWatch
MaxCalls == 1      \* calls of beep / read_battery / disconnect by the entities
MaxRegistrations == 2 \* callbacks the scanner holds for the session at a time
MaxTargets == 2    \* alert characteristics the peripheral exposes
MaxBeeps == 2      \* beep calls followed one write at a time
MaxTurns == 2      \* keepalive turns followed one write at a time

\* ------------------------------------------------------ program constants
attempt_min_interval == 3
InitialLastAttempt == 0

Tasks == 1..MaxTasks
Conns == 1..MaxConns
KAs   == 1..MaxKA

\* ------------------------------------------------------------- addresses
\* An address is a sequence of characters.
UpperChar(ch) ==
    CASE ch = "a" -> "A"
      [] ch = "b" -> "B"
      [] ch = "c" -> "C"
      [] OTHER -> ch

Upper(s) == [i \in DOMAIN s |-> UpperChar(s[i])]

\* The address the session was constructed with, and what the scanner reports.
ConfiguredMac == <<"a", "B">>
AdvAddresses == { <<>>, <<"a", "b">>, <<"a", "c">> }
OwnAdvAddresses == { <<"a", "b">> }

\* self.mac = mac.upper()
mac == Upper(ConfiguredMac)

\* Two addresses that differ at most in the case of their letters.
SameIgnoringCase(a, b) ==
    /\ Len(a) = Len(b)
    /\ \A i \in 1..Len(a) : UpperChar(a[i]) = UpperChar(b[i])

VARIABLES
    client,          \* self.client: 0 (None) or the connection in the slot
    conn,            \* the transport's connections
    nConns,          \* connections established so far
    connect_lock,    \* self._connect_lock: 0 (free) or the task holding it
    keepalive_task,  \* self._keepalive_task: 0 (None) or a keepalive task
    ka,              \* the keepalive tasks ever created
    nKA,             \* keepalive tasks created so far
    adv_remove,      \* self._adv_remove is not None
    registrations,   \* callbacks of the session the scanner holds (active registrations)
    foreignSeen,     \* _adv_cb has handled an advertisement that is not the session's
    last_attempt,    \* self._last_attempt
    task,            \* the coroutines started on the session
    nTasks,          \* coroutines started so far
    loopq,           \* callbacks queued on the host loop by call_soon_threadsafe
    connSignals,     \* "itag_bt_connected" events fired on the bus
    discSignals,     \* "itag_bt_disconnected" events fired on the bus
    completed,       \* connections whose post-connect sequence ran to its end
    targets,         \* alert characteristics found in client.services (0 before a connection)
    received,        \* what each alert characteristic has received, in order
    wr,              \* the calls of _write_alert_all followed one write at a time
    turns            \* turns the keepalive loop has made in those

clockVars == << adv_remove, registrations, foreignSeen, last_attempt >>
kaVars    == << keepalive_task, ka, nKA >>
connVars  == << conn, nConns >>
taskVars  == << task, nTasks >>
busVars   == << loopq, connSignals, discSignals >>
periphVars == << targets, received, wr, turns >>

vars == << client, conn, nConns, connect_lock, keepalive_task, ka, nKA,
           adv_remove, registrations, foreignSeen, last_attempt, task, nTasks, loopq,
           connSignals,
           discSignals, completed, targets, received, wr, turns >>

\* A connection: st is "none" (not established yet), "up" (is_connected) or
\* "down"; cb: the disconnect callback is registered; nd: where the transport
\* is with the disconnect notification ("none", "pending", "mid", "done").
NoConn == [st |-> "none", cb |-> FALSE, nd |-> "none"]

\* A coroutine: pc is its await point; origin is who started it; tier, c are
\* connect()'s tier and the connection it established; res is how its
\* connect() call ended; ka0, sig0 are nKA and connSignals when it took the
\* lock; addr, at are the address and the clock reading of the advertisement
\* that scheduled it.
NoTask == [pc |-> "idle", origin |-> "none", on |-> FALSE, res |-> "none",
           tier |-> 0, t1 |-> "none", c |-> 0, addr |-> <<>>, at |-> 0,
           ka0 |-> 0, sig0 |-> 0]

\* The alert characteristics: 1..targets are the ones found in
\* client.services, 0 is the one a write addressed by UUID alone reaches.
Instances == 0..MaxTargets

\* The callers of _write_alert_all that are followed one write at a time:
\* 0 is the keepalive loop, the others are calls of beep.
Beeps == 1..MaxBeeps
Writers == {0} \cup Beeps

\* A call of _write_alert_all: st is "none", "writing" (awaiting the write to
\* instance i) or "done" (for the loop: asleep); p the payload; reached the
\* instances whose write returned; failed the instance whose write raised
\* (-1: none); after: the beep calls that had returned when this one began.
NoWrite == [st |-> "none", p |-> "00", i |-> 0, reached |-> {}, failed |-> -1, after |-> {}]

\* self.client and getattr(self.client, "is_connected", False)
IsConnected(cl, cn) == cl # 0 /\ cn[cl].st = "up"

Init ==
    /\ client = 0
    /\ conn = [c \in Conns |-> NoConn]
    /\ nConns = 0
    /\ connect_lock = 0
    /\ keepalive_task = 0
    /\ ka = [k \in KAs |-> "none"]
    /\ nKA = 0
    /\ adv_remove = FALSE
    /\ registrations = 0
    /\ foreignSeen = FALSE
    /\ last_attempt = InitialLastAttempt
    /\ task = [t \in Tasks |-> NoTask]
    /\ nTasks = 0
    /\ loopq = <<>>
    /\ connSignals = 0
    /\ discSignals = 0
    /\ completed = {}
    /\ targets = 0
    /\ received = [i \in Instances |-> << >>]
    /\ wr = [w \in Writers |-> NoWrite]
    /\ turns = 0

\* Reschedules the disconnect callback has promised but the loop has not run yet.
PendingResched ==
    Cardinality({c \in Conns : conn[c].nd = "mid"})
      + Cardinality({i \in DOMAIN loopq : loopq[i] = "connect"})

\* A coroutine can still be started within MaxTasks.
CanStartTask == nTasks + PendingResched < MaxTasks

\* The entities can still call the session within MaxCalls.
CanCall ==
    /\ CanStartTask
    /\ Cardinality({t \in Tasks : task[t].origin \in {"beep", "battery", "disconnect"}}) < MaxCalls

\* A new coroutine.
NewTask(origin, pc, on) == [NoTask EXCEPT !.pc = pc, !.origin = origin, !.on = on]

\* ------------------------------------------------------ advertisement watch
\* start_advert_watch: nothing with a handle present, else _adv_cb is
\* registered with the scanner and the handle kept.
StartAdvertWatch ==
    /\ IF adv_remove
       THEN UNCHANGED << adv_remove, registrations >>
       ELSE /\ registrations < MaxRegistrations
            /\ registrations' = registrations + 1
            /\ adv_remove' = TRUE
    /\ UNCHANGED << client, connVars, connect_lock, kaVars, foreignSeen, last_attempt,
                    periphVars, taskVars, busVars, completed >>

\* How the scanner's unregister call can end: the callback is removed, or
\* the call raises and the callback stays registered.
UnregisterOutcomes == {"removed", "raised"}

\* stop_advert_watch: nothing without a handle, else the unregister call
\* (an error of which is swallowed) and the handle is dropped.
StopAdvertWatch(outcome) ==
    /\ IF adv_remove
       THEN /\ registrations' = IF outcome = "removed" THEN registrations - 1 ELSE registrations
            /\ adv_remove' = FALSE
       ELSE UNCHANGED << adv_remove, registrations >>
    /\ UNCHANGED << client, connVars, connect_lock, kaVars, foreignSeen, last_attempt,
                    periphVars, taskVars, busVars, completed >>

\* Mutant: the MAC filter is missing.
AddrAccepted_NoFilter(addr) == addr # <<>>

\* if not addr: return / if addr.upper() != self.mac: return
AddrAccepted(addr) == addr # <<>> /\ Upper(addr) = mac

\* Mutant: _last_attempt is not updated when the gate is passed.
NextLastAttempt_Stale(rd) == last_attempt

\* self._last_attempt = now
NextLastAttempt(rd) == rd

\* Mutant: the rate-limit gate lets every advertisement through.
GateOpen_Always(rd) == TRUE

\* if now - self._last_attempt < self._attempt_min_interval: return
GateOpen(rd) == ~(rd - last_attempt < attempt_min_interval)

\* What time.monotonic() can return: the clock is read here only, and never
\* runs backwards, so not before the reading kept in _last_attempt.
Readings(max) == { rd \in 0..max : rd >= last_attempt }

\* _adv_cb for an advertisement of addr, the clock reading rd: the filter, the
\* gate, then the connected check, then the schedule.
AdvCb(addr, rd) ==
    /\ registrations > 0
    /\ foreignSeen' = (foreignSeen \/ addr = <<>> \/ ~SameIgnoringCase(addr, ConfiguredMac))
    /\ IF ~AddrAccepted(addr) \/ ~GateOpen(rd)
       THEN UNCHANGED << last_attempt, task, nTasks >>
       ELSE /\ last_attempt' = NextLastAttempt(rd)
            /\ IF IsConnected(client, conn)
               THEN UNCHANGED << task, nTasks >>
               ELSE /\ CanStartTask
                    /\ nTasks' = nTasks + 1
                    /\ task' = [task EXCEPT ![nTasks + 1] =
                                  [NewTask("adv", "lock", FALSE) EXCEPT !.addr = addr, !.at = rd]]
    /\ UNCHANGED << client, connVars, connect_lock, kaVars, adv_remove, registrations,
                    periphVars, busVars, completed >>

\* ------------------------------------------------------------- keepalive
\* _start_keepalive: a new task unless the handle names one that is not done.
NeedsKeepalive == keepalive_task = 0 \/ ka[keepalive_task] = "done"

StartKeepalive ==
    IF NeedsKeepalive
    THEN /\ nKA < MaxKA
         /\ nKA' = nKA + 1
         /\ ka' = [ka EXCEPT ![nKA + 1] = "running"]
         /\ keepalive_task' = nKA + 1
    ELSE UNCHANGED kaVars

\* task.cancel() on the task the handle names, if it is not done.
CancelKeepalive ==
    IF keepalive_task # 0 /\ ka[keepalive_task] # "done"
    THEN [ka EXCEPT ![keepalive_task] = "cancelling"]
    ELSE ka

\* _stop_keepalive, run on the host loop (by disconnect()).
StopKeepalive ==
    /\ ka' = CancelKeepalive
    /\ keepalive_task' = 0
    /\ UNCHANGED nKA

\* Mutant: the loop never looks at the connection.
LoopTest_Forever == TRUE

\* while self.client and getattr(self.client, "is_connected", False)
LoopTest == IsConnected(client, conn)

\* One turn of _keepalive_loop: the loop test, then the write and the sleep,
\* or the end of the task.
KeepaliveLoop(k) ==
    /\ ka[k] = "running"
    /\ ka' = IF LoopTest THEN ka ELSE [ka EXCEPT ![k] = "done"]
    /\ UNCHANGED << client, connVars, connect_lock, keepalive_task, nKA,
                    clockVars, periphVars, taskVars, busVars, completed >>

\* CancelledError reaches the task at its await: except CancelledError: pass.
KeepaliveCancelled(k) ==
    /\ ka[k] = "cancelling"
    /\ ka' = [ka EXCEPT ![k] = "done"]
    /\ UNCHANGED << client, connVars, connect_lock, keepalive_task, nKA,
                    clockVars, periphVars, taskVars, busVars, completed >>

\* ---------------------------------------------------------------- connect
\* Where beep / read_battery go on when their connect() has returned; a task
\* that is connect() alone is done.
AfterConnect(origin, cl, cn) ==
    CASE origin = "beep" -> IF IsConnected(cl, cn) THEN "b_write" ELSE "done"
      [] origin = "battery" -> IF IsConnected(cl, cn) THEN "r_read" ELSE "done"
      [] OTHER -> "done"

\* The coroutine t when its connect() has ended with res: connect()'s locals
\* are gone, and the caller goes on.
Returned(t, res, cl) ==
    [task[t] EXCEPT !.res = res,
                    !.pc = IF res = "raised" THEN "done"
                           ELSE AfterConnect(task[t].origin, cl, conn),
                    !.tier = 0, !.c = 0, !.ka0 = 0, !.sig0 = 0,
                    !.t1 = IF res = "raised" THEN "none" ELSE task[t].t1]

\* Mutant: the lock never makes a caller wait.
LockAvailable_Always == TRUE

\* async with self._connect_lock: the lock can be taken.
LockAvailable == connect_lock = 0

\* Mutant: the early return is missing.
AlreadyConnected_Never == FALSE

\* if self.client and is_connected: return
AlreadyConnected == IsConnected(client, conn)

\* connect() up to its first await: the lock, the early return, the device
\* lookup (found or not) and the start of the tier's establishment.
ConnectEnter(t) ==
    /\ task[t].pc = "lock"
    /\ LockAvailable
    /\ IF AlreadyConnected
       THEN /\ task' = [task EXCEPT ![t] = Returned(t, "early", client)]
            /\ UNCHANGED connect_lock
       ELSE /\ connect_lock' = t
            /\ \E found \in BOOLEAN :
                 task' = [task EXCEPT ![t].pc = "establish",
                                      ![t].tier = IF found THEN 1 ELSE 2,
                                      ![t].t1 = IF found THEN "tried" ELSE "unavailable",
                                      ![t].ka0 = nKA,
                                      ![t].sig0 = connSignals]
    /\ UNCHANGED << client, connVars, kaVars, clockVars, periphVars, nTasks, busVars,
                    completed >>

\* Mutant: the handler of tier 2 leaves the slot as it is.
SlotAfterFailure_Kept == client

\* What the slot holds after a failed tier 2 (except Exception: self.client = None).
SlotAfterFailure == 0

\* A transport call of connect() raised.  Tier 1 catches BleakError only,
\* clears the slot and falls through to tier 2; any other error leaves
\* connect() through the lock.  Tier 2 catches every Exception.
ConnectError(t, kind) ==
    /\ IF task[t].tier = 1
       THEN IF kind = "bleak"
            THEN /\ client' = 0
                 /\ task' = [task EXCEPT ![t].pc = "establish", ![t].tier = 2,
                                         ![t].t1 = "failed"]
                 /\ UNCHANGED connect_lock
            ELSE /\ connect_lock' = 0
                 /\ task' = [task EXCEPT ![t] = Returned(t, "raised", client)]
                 /\ UNCHANGED client
       ELSE /\ client' = SlotAfterFailure
            /\ connect_lock' = 0
            /\ task' = [task EXCEPT ![t] = Returned(t, "failed", 0)]

ErrorKinds == {"bleak", "other"}

\* establish_connection(...) / direct.__aenter__() returns or raises; on
\* success the slot is set, the disconnect callback registered (a failure
\* there is swallowed) and start_notify awaited.
Establish(t) ==
    /\ task[t].pc = "establish"
    /\ \/ /\ nConns < MaxConns
          /\ nConns' = nConns + 1
          /\ \E registered \in BOOLEAN :
               conn' = [conn EXCEPT ![nConns + 1] = [st |-> "up", cb |-> registered, nd |-> "none"]]
          /\ client' = nConns + 1
          /\ task' = [task EXCEPT ![t].pc = "notify", ![t].c = nConns + 1]
          /\ UNCHANGED connect_lock
       \/ /\ \E kind \in ErrorKinds : ConnectError(t, kind)
          /\ UNCHANGED connVars
    /\ UNCHANGED << kaVars, clockVars, periphVars, nTasks, busVars, completed >>

\* start_notify(UUID_BTN, ...) returns or raises; then asyncio.sleep(0).
StartNotify(t) ==
    /\ task[t].pc = "notify"
    /\ \/ /\ conn[task[t].c].st = "up"
          /\ task' = [task EXCEPT ![t].pc = "yield"]
          /\ UNCHANGED << client, connect_lock >>
       \/ \E kind \in ErrorKinds : ConnectError(t, kind)
    /\ UNCHANGED << connVars, kaVars, clockVars, periphVars, nTasks, busVars, completed >>

\* The end of the post-connect sequence: _start_keepalive(), the "connected"
\* event, and the return through the lock.
ConnectFinish(t) ==
    /\ StartKeepalive
    /\ connSignals' = connSignals + 1
    /\ completed' = completed \cup {task[t].c}
    /\ connect_lock' = 0
    /\ task' = [task EXCEPT ![t] = Returned(t, "ok", client)]

\* asyncio.sleep(0) returns; _write_alert_all(b"\x00") returns at once when
\* the slot is empty, and awaits its write otherwise.
Yielded(t) ==
    /\ task[t].pc = "yield"
    /\ IF client = 0
       THEN /\ ConnectFinish(t)
            /\ UNCHANGED << loopq, discSignals >>
       ELSE /\ task' = [task EXCEPT ![t].pc = "write"]
            /\ UNCHANGED << connect_lock, kaVars, busVars, completed >>
    /\ UNCHANGED << client, connVars, clockVars, periphVars, nTasks >>

\* The alert-off write returns (its failure is swallowed), and connect() ends.
AlertWritten(t) ==
    /\ task[t].pc = "write"
    /\ ConnectFinish(t)
    /\ UNCHANGED << client, connVars, clockVars, periphVars, nTasks, loopq, discSignals >>

\* ----------------------------------------------------- disconnect callback
\* The link of an established connection is lost; the transport will notify
\* the registered callback.
LinkLoss(c) ==
    /\ conn[c].st = "up"
    /\ conn' = [conn EXCEPT ![c].st = "down",
                            ![c].nd = IF conn[c].cb THEN "pending" ELSE "none"]
    /\ UNCHANGED << client, nConns, connect_lock, kaVars, clockVars, periphVars, taskVars,
                    busVars, completed >>

\* _on_disconnected, first half of _stop_keepalive(): the transport calls
\* the handler on its own context, and the handler cancels the task.
OnDisconnectedCancel(c) ==
    /\ conn[c].nd = "pending"
    /\ CanStartTask
    /\ conn' = [conn EXCEPT ![c].nd = "mid"]
    /\ ka' = CancelKeepalive
    /\ UNCHANGED << client, nConns, connect_lock, keepalive_task, nKA, clockVars, periphVars,
                    taskVars, busVars, completed >>

\* What _on_disconnected hands to the host loop: the "disconnected" event,
\* unless call_soon_threadsafe raised for it (swallowed), then the reconnect.
Handed(fired) == (IF fired THEN << "fire_disconnected" >> ELSE << >>) \o << "connect" >>

\* _on_disconnected, the rest: the handle is cleared, then the "disconnected"
\* event and the reconnect are handed to the host loop.
OnDisconnectedReschedule(c) ==
    /\ conn[c].nd = "mid"
    /\ conn' = [conn EXCEPT ![c].nd = "done"]
    /\ keepalive_task' = 0
    /\ \E fired \in BOOLEAN : loopq' = loopq \o Handed(fired)
    /\ UNCHANGED << client, nConns, connect_lock, ka, nKA, clockVars, periphVars, taskVars,
                    connSignals, discSignals, completed >>

\* The host loop runs the next callback handed to it.
LoopRun ==
    /\ loopq # <<>>
    /\ loopq' = Tail(loopq)
    /\ IF Head(loopq) = "fire_disconnected"
       THEN /\ discSignals' = discSignals + 1
            /\ UNCHANGED taskVars
       ELSE /\ nTasks' = nTasks + 1
            /\ task' = [task EXCEPT ![nTasks + 1] = NewTask("disconnected", "lock", FALSE)]
            /\ UNCHANGED discSignals
    /\ UNCHANGED << client, connVars, connect_lock, kaVars, clockVars, periphVars, connSignals,
                    completed >>

\* ------------------------------------------------------------- disconnect
\* disconnect() up to its first await: _stop_keepalive(), and with a client
\* in the slot the alert-off write.
Disconnect ==
    /\ CanCall
    /\ nTasks' = nTasks + 1
    /\ task' = [task EXCEPT ![nTasks + 1] =
                   NewTask("disconnect", IF client # 0 THEN "d_write" ELSE "done", FALSE)]
    /\ StopKeepalive
    /\ UNCHANGED << client, connVars, connect_lock, clockVars, periphVars, busVars, completed >>

\* The write returns; stop_notify is awaited.
DisconnectWritten(t) ==
    /\ task[t].pc = "d_write"
    /\ task' = [task EXCEPT ![t].pc = "d_stop_notify"]
    /\ UNCHANGED << client, connVars, connect_lock, kaVars, clockVars, periphVars, nTasks,
                    busVars, completed >>

\* stop_notify returns or raises (swallowed); client.disconnect() is awaited.
DisconnectUnsubscribed(t) ==
    /\ task[t].pc = "d_stop_notify"
    /\ task' = [task EXCEPT ![t].pc = "d_disconnect"]
    /\ UNCHANGED << client, connVars, connect_lock, kaVars, clockVars, periphVars, nTasks,
                    busVars, completed >>

\* The transport closes the link of the client in the slot.
CloseLink ==
    IF IsConnected(client, conn)
    THEN [conn EXCEPT ![client].st = "down",
                      ![client].nd = IF conn[client].cb THEN "pending" ELSE "none"]
    ELSE conn

\* client.disconnect() closes the link, or raises and __aexit__ is awaited.
DisconnectTransport(t) ==
    /\ task[t].pc = "d_disconnect"
    /\ \/ /\ client # 0
          /\ conn' = CloseLink
          /\ task' = [task EXCEPT ![t].pc = "d_clear"]
       \/ /\ task' = [task EXCEPT ![t].pc = IF client # 0 THEN "d_aexit" ELSE "d_clear"]
          /\ UNCHANGED conn
    /\ UNCHANGED << client, nConns, connect_lock, kaVars, clockVars, periphVars, nTasks,
                    busVars, completed >>

\* client.__aexit__ closes the link, or raises (swallowed).
DisconnectAexit(t) ==
    /\ task[t].pc = "d_aexit"
    /\ \/ conn' = CloseLink
       \/ UNCHANGED conn
    /\ task' = [task EXCEPT ![t].pc = "d_clear"]
    /\ UNCHANGED << client, nConns, connect_lock, kaVars, clockVars, periphVars, nTasks,
                    busVars, completed >>

\* disconnect() resumes after the transport call: self.client = None.
DisconnectClear(t) ==
    /\ task[t].pc = "d_clear"
    /\ client' = 0
    /\ task' = [task EXCEPT ![t].pc = "done"]
    /\ UNCHANGED << connVars, connect_lock, kaVars, clockVars, periphVars, nTasks, busVars,
                    completed >>

\* ------------------------------------------------------ beep / read_battery
\* beep(on) up to its first await: connect() when not connected, else the write.
Beep(on) ==
    /\ CanCall
    /\ nTasks' = nTasks + 1
    /\ task' = [task EXCEPT ![nTasks + 1] =
                   NewTask("beep", IF IsConnected(client, conn) THEN "b_write" ELSE "lock",
                           on)]
    /\ UNCHANGED << client, connVars, connect_lock, kaVars, clockVars, periphVars, busVars,
                    completed >>

\* The alert write of beep returns (its failure is swallowed).
BeepWritten(t) ==
    /\ task[t].pc = "b_write"
    /\ task' = [task EXCEPT ![t].pc = "done"]
    /\ UNCHANGED << client, connVars, connect_lock, kaVars, clockVars, periphVars, nTasks,
                    busVars, completed >>

\* read_battery() up to its first await.
ReadBattery ==
    /\ CanCall
    /\ nTasks' = nTasks + 1
    /\ task' = [task EXCEPT ![nTasks + 1] =
                   NewTask("battery", IF IsConnected(client, conn) THEN "r_read" ELSE "lock",
                           FALSE)]
    /\ UNCHANGED << client, connVars, connect_lock, kaVars, clockVars, periphVars, busVars,
                    completed >>

\* read_gatt_char(UUID_BATT) returns.
BatteryRead(t) ==
    /\ task[t].pc = "r_read"
    /\ task' = [task EXCEPT ![t].pc = "done"]
    /\ UNCHANGED << client, connVars, connect_lock, kaVars, clockVars, periphVars, nTasks,
                    busVars, completed >>

\* ------------------------------------------- alert writes, one at a time
\* The session after its first connect() (made for a read_battery() that
\* has returned): the client in the slot is connected and its services are
\* discovered, the keepalive task has been created and has not run yet.
AlertInit ==
    /\ client = 1
    /\ conn = [c \in Conns |-> IF c = 1 THEN [st |-> "up", cb |-> TRUE, nd |-> "none"]
                                         ELSE NoConn]
    /\ nConns = 1
    /\ connect_lock = 0
    /\ keepalive_task = 1
    /\ ka = [k \in KAs |-> IF k = 1 THEN "running" ELSE "none"]
    /\ nKA = 1
    /\ adv_remove = FALSE
    /\ registrations = 0
    /\ foreignSeen = FALSE
    /\ last_attempt = InitialLastAttempt
    /\ task = [t \in Tasks |->
                 IF t = 1 THEN [NoTask EXCEPT !.pc = "done", !.origin = "battery",
                                              !.res = "ok", !.t1 = "tried"]
                          ELSE NoTask]
    /\ nTasks = 1
    /\ loopq = <<>>
    /\ connSignals = 1
    /\ discSignals = 0
    /\ completed = {1}
    /\ targets \in 0..MaxTargets
    /\ received = [i \in Instances |-> << >>]
    /\ wr = [w \in Writers |-> NoWrite]
    /\ turns = 0

sessionVars == << client, connVars, connect_lock, kaVars, clockVars, taskVars, busVars,
                  completed >>

\* b"\x02" if on else b"\x00"
AlertPayload(on) == IF on THEN "02" ELSE "00"

\* _write_alert_all(p) up to its first await, called by w: nothing with the
\* slot empty; else the targets are collected and the first write awaited,
\* to the characteristic addressed by UUID when no target was found.
StartWrite(w, p) ==
    IF client = 0
    THEN [NoWrite EXCEPT !.st = "done", !.p = p]
    ELSE [NoWrite EXCEPT !.st = "writing", !.p = p,
                         !.i = IF targets = 0 THEN 0 ELSE 1,
                         !.after = {b \in Beeps : wr[b].st = "done"}]

\* beep(on) on a connected session: no connect(), the alert write begins.
BeepConnected(on) ==
    /\ IsConnected(client, conn)
    /\ \E b \in Beeps :
         /\ wr[b].st = "none"
         /\ \A b2 \in Beeps : b2 < b => wr[b2].st # "none"
         /\ wr' = [wr EXCEPT ![b] = StartWrite(b, AlertPayload(on))]
    /\ UNCHANGED << sessionVars, targets, received, turns >>

\* The write_gatt_char that w awaits returns: the instance has received the
\* payload, and the loop over the targets goes on or _write_alert_all returns.
WriteGattChar(w) ==
    /\ wr[w].st = "writing"
    /\ LET i == wr[w].i
           last == i = 0 \/ i = targets
       IN  /\ received' = [received EXCEPT ![i] = Append(@, [p |-> wr[w].p, by |-> w])]
           /\ wr' = [wr EXCEPT ![w].reached = @ \cup {i},
                               ![w].st = IF last THEN "done" ELSE "writing",
                               ![w].i = IF last THEN i ELSE i + 1]
    /\ UNCHANGED << sessionVars, targets, turns >>

\* The write_gatt_char that w awaits raises: the one handler around the whole
\* of _write_alert_all catches it, and _write_alert_all returns.
WriteGattCharRaises(w) ==
    /\ wr[w].st = "writing"
    /\ wr' = [wr EXCEPT ![w].st = "done", ![w].failed = wr[w].i]
    /\ UNCHANGED << sessionVars, targets, received, turns >>

\* The payload last received from a beep call is b"\x02".
BeeperOn ==
    \E i \in Instances :
        \E j \in 1..Len(received[i]) :
            /\ received[i][j].by \in Beeps
            /\ received[i][j].p = "02"
            /\ \A k \in (j+1)..Len(received[i]) : received[i][k].by \notin Beeps

\* Mutant: the keepalive repeats the beeper's state.
KeepalivePayload_Beeper == IF BeeperOn THEN "02" ELSE "00"

\* await self._write_alert_all(b"\x00")
KeepalivePayload == "00"

\* A turn of _keepalive_loop, followed one write at a time: the task starts
\* or its sleep ends, the loop test passes, and the alert-off write begins.
KeepaliveTurn ==
    /\ keepalive_task # 0
    /\ ka[keepalive_task] = "running"
    /\ wr[0].st # "writing"
    /\ LoopTest
    /\ turns < MaxTurns
    /\ turns' = turns + 1
    /\ wr' = [wr EXCEPT ![0] = StartWrite(0, KeepalivePayload)]
    /\ UNCHANGED << sessionVars, targets, received >>

\* ------------------------------------------------------------------- spec
Next ==
    \/ StartAdvertWatch
    \/ StopAdvertWatch("removed")
    \/ \E addr \in OwnAdvAddresses : \E rd \in Readings(MaxReading) : AdvCb(addr, rd)
    \/ \E t \in Tasks : ConnectEnter(t)
    \/ \E t \in Tasks : Establish(t)
    \/ \E t \in Tasks : StartNotify(t)
    \/ \E t \in Tasks : Yielded(t)
    \/ \E t \in Tasks : AlertWritten(t)
    \/ \E k \in KAs : KeepaliveLoop(k)
    \/ \E k \in KAs : KeepaliveCancelled(k)
    \/ \E c \in Conns : LinkLoss(c)
    \/ \E c \in Conns : OnDisconnectedCancel(c)
    \/ \E c \in Conns : OnDisconnectedReschedule(c)
    \/ LoopRun
    \/ Disconnect
    \/ \E t \in Tasks : DisconnectWritten(t)
    \/ \E t \in Tasks : DisconnectUnsubscribed(t)
    \/ \E t \in Tasks : DisconnectTransport(t)
    \/ \E t \in Tasks : DisconnectAexit(t)
    \/ \E t \in Tasks : DisconnectClear(t)
    \/ \E on \in BOOLEAN : Beep(on)
    \/ \E t \in Tasks : BeepWritten(t)
    \/ ReadBattery
    \/ \E t \in Tasks : BatteryRead(t)

\* The whole session: the advertisements of its own device within the first
\* rate-limit window of the clock, the entities' calls, the transport's events.
Spec == Init /\ [][Next]_vars

\* The advertisement watch over several rate-limit windows and every kind of
\* address, with the connects it schedules; the entities make no call and the transport delivers no
\* disconnect notification.
WatchNext ==
    \/ StartAdvertWatch
    \/ \E outcome \in UnregisterOutcomes : StopAdvertWatch(outcome)
    \/ \E addr \in AdvAddresses : \E rd \in Readings(MaxWatchReading) : AdvCb(addr, rd)
    \/ \E t \in Tasks : ConnectEnter(t)
    \/ \E t \in Tasks : Establish(t)
    \/ \E t \in Tasks : StartNotify(t)
    \/ \E t \in Tasks : Yielded(t)
    \/ \E t \in Tasks : AlertWritten(t)
    \/ \E k \in KAs : KeepaliveLoop(k)
    \/ \E c \in Conns : LinkLoss(c)

SpecWatch == Init /\ [][WatchNext]_vars

\* A connected session, its beep calls and its keepalive loop followed one
\* characteristic write at a time.
AlertNext ==
    \/ \E on \in BOOLEAN : BeepConnected(on)
    \/ \E w \in Writers : WriteGattChar(w)
    \/ \E w \in Writers : WriteGattCharRaises(w)
    \/ KeepaliveTurn

SpecAlert == AlertInit /\ [][AlertNext]_vars

\* The host loop resumes every task that is ready: a keepalive task's sleep
\* ends, and a cancelled task is resumed with CancelledError.
KeepaliveFairness ==
    \A k \in KAs : WF_vars(KeepaliveLoop(k)) /\ WF_vars(KeepaliveCancelled(k))

\* The session as the integration drives it on its own: the advertisement
\* watch and the disconnect callback start the connects, the keepalive tasks
\* run, and the session is torn down by disconnect().
KeepaliveNext ==
    \/ StartAdvertWatch
    \/ \E addr \in OwnAdvAddresses : \E rd \in Readings(MaxReading) : AdvCb(addr, rd)
    \/ \E t \in Tasks : ConnectEnter(t)
    \/ \E t \in Tasks : Establish(t)
    \/ \E t \in Tasks : StartNotify(t)
    \/ \E t \in Tasks : Yielded(t)
    \/ \E t \in Tasks : AlertWritten(t)
    \/ \E k \in KAs : KeepaliveLoop(k)
    \/ \E k \in KAs : KeepaliveCancelled(k)
    \/ \E c \in Conns : LinkLoss(c)
    \/ \E c \in Conns : OnDisconnectedCancel(c)
    \/ \E c \in Conns : OnDisconnectedReschedule(c)
    \/ LoopRun
    \/ Disconnect
    \/ \E t \in Tasks : DisconnectWritten(t)
    \/ \E t \in Tasks : DisconnectUnsubscribed(t)
    \/ \E t \in Tasks : DisconnectTransport(t)
    \/ \E t \in Tasks : DisconnectAexit(t)
    \/ \E t \in Tasks : DisconnectClear(t)

FairSpec == Init /\ [][KeepaliveNext]_vars /\ KeepaliveFairness


\* ---------------------------------------------------------------- claims
InFlightPcs == {"establish", "notify", "yield", "write"}

\* No transport call has failed, no link was lost and disconnect() was not
\* called: the device was reachable all along.
DeviceReachable ==
    /\ \A c \in Conns : conn[c].st # "down"
    /\ \A t \in Tasks : /\ task[t].t1 # "failed"
                        /\ task[t].res \notin {"failed", "raised"}
                        /\ task[t].origin # "disconnect"

ConnectCallsEnded == {t \in Tasks : task[t].res \in {"ok", "early"}}

\* C1: with the device reachable, callers of connect() that race on a
\* disconnected session establish one connection and fire one "connected"
\* event between them: one call ends having connected, every other call
\* returns early on the connection it finds.
C1_OneConnectionForConcurrentCallers ==
    DeviceReachable =>
        /\ nConns <= 1
        /\ connSignals <= 1
        /\ Cardinality({t \in Tasks : task[t].res = "ok"}) <= 1
        /\ (ConnectCallsEnded # {} => nConns = 1 /\ connSignals = 1 /\ IsConnected(client, conn))

C1_Witness ==
    /\ DeviceReachable
    /\ \E a, b \in Tasks : task[a].res = "ok" /\ task[b].res = "early"
    /\ nConns = 1
    /\ connSignals = 1

\* C2: at most one connect attempt (an establishment or its post-connect
\* sequence) is in flight, and it is the lock holder's.
C2_OneAttemptInFlight ==
    /\ Cardinality({t \in Tasks : task[t].pc \in InFlightPcs}) <= 1
    /\ \A t \in Tasks : task[t].pc \in InFlightPcs => connect_lock = t

C2_Witness ==
    \E a, b \in Tasks :
        /\ task[a].pc \in InFlightPcs
        /\ task[b].pc = "lock"
        /\ task[a].origin # task[b].origin

\* C3 (as claimed): once disconnect() unsubscribes from or disconnects the
\* transport, the connection slot is already empty.
C3_SlotClearedBeforeTeardown ==
    \A t \in Tasks :
        task[t].pc \in {"d_stop_notify", "d_disconnect", "d_aexit", "d_clear"} => client = 0

\* C4 (as claimed): no connect() call ends by raising to its caller.
C4_ConnectNeverRaises == \A t \in Tasks : task[t].res # "raised"

\* C5: the step in which a connect() call ends with tier 2 failed leaves the
\* slot empty and the lock free; the call has started no keepalive task and
\* fired no "connected" event since it took the lock, and the step schedules
\* nothing.
C5_FailedConnectIsClean ==
    [][\A t \in Tasks :
         (task[t].pc \in InFlightPcs /\ task'[t].res = "failed") =>
             /\ client' = 0
             /\ connect_lock' = 0
             /\ nKA' = task[t].ka0
             /\ keepalive_task' = keepalive_task
             /\ connSignals' = task[t].sig0
             /\ nTasks' = nTasks
             /\ loopq' = loopq]_vars

C5_Witness ==
    /\ \E t \in Tasks : task[t].res = "failed" /\ task[t].t1 = "failed"
    /\ client = 0
    /\ connect_lock = 0

\* C6 (as claimed): while the connection in the slot is connected and its
\* post-connect sequence has run, and no disconnect() was called, a keepalive
\* task is running.
C6_KeepaliveServesConnection ==
    (/\ IsConnected(client, conn)
     /\ client \in completed
     /\ \A t \in Tasks : task[t].origin # "disconnect")
        => \E k \in KAs : ka[k] = "running"

\* C7 (as claimed): at most one keepalive task is running.
C7_AtMostOneKeepalive == Cardinality({k \in KAs : ka[k] = "running"}) <= 1

\* C8: every connect the advertisement watch has scheduled was scheduled for
\* an advertisement that carries the session's address, in any case of its
\* letters: no foreign or address-less advertisement schedules a connect.
C8_ForeignAdvertSchedulesNothing ==
    \A t \in Tasks :
        task[t].origin = "adv" =>
            task[t].addr # <<>> /\ SameIgnoringCase(task[t].addr, ConfiguredMac)

C8_Witness ==
    /\ foreignSeen
    /\ adv_remove
    /\ nTasks = 0

\* C9: any two connects the advertisement watch has scheduled were scheduled
\* at clock readings at least attempt_min_interval apart, and _last_attempt
\* is never behind the reading of a scheduled connect.
C9_OneAttemptPerWindow ==
    /\ \A a, b \in Tasks :
         (a # b /\ task[a].origin = "adv" /\ task[b].origin = "adv") =>
             \/ task[a].at - task[b].at >= attempt_min_interval
             \/ task[b].at - task[a].at >= attempt_min_interval
    /\ \A t \in Tasks : task[t].origin = "adv" => task[t].at <= last_attempt

C9_Witness ==
    \E a, b \in Tasks :
        /\ a # b
        /\ task[a].origin = "adv"
        /\ task[b].origin = "adv"

\* C10 (as claimed): a step of the disconnect callback on the transport's
\* context changes neither the keepalive handle nor a keepalive task.
C10_HandlerMarshalsFirst ==
    [][(\E c \in Conns : conn'[c].nd # conn[c].nd /\ conn'[c].nd \in {"mid", "done"})
          => (ka' = ka /\ keepalive_task' = keepalive_task)]_vars

\* C11 (as claimed): when the disconnect callback has run, no keepalive task
\* is left running and the handle is cleared, and the callback has handed to
\* the host loop at most one "disconnected" event and exactly one reconnect,
\* the event ahead of the reconnect.
C11_NotificationStopsKeepaliveAndReschedules ==
    [][(\E c \in Conns : conn[c].nd = "mid" /\ conn'[c].nd = "done") =>
          /\ keepalive_task' = 0
          /\ \A k \in KAs : ka'[k] # "running"
          /\ \/ loopq' = loopq \o << "fire_disconnected", "connect" >>
             \/ loopq' = loopq \o << "connect" >>]_vars

\* C12 (as claimed): a beep() whose connect() did not connect has returned
\* without raising, and a beep() is at its alert write only with the session
\* connected by then.
C12_BeepAfterFailedConnect ==
    \A t \in Tasks :
        task[t].origin = "beep" =>
            /\ task[t].res \in {"failed", "raised"} => task[t].pc = "done"
            /\ task[t].res # "raised"

\* C13 (as claimed): a read_battery() whose connect() did not connect has
\* returned (no value) without raising and without a characteristic read.
C13_ReadBatteryAfterFailedConnect ==
    \A t \in Tasks :
        task[t].origin = "battery" =>
            /\ task[t].res \in {"failed", "raised"} => task[t].pc = "done"
            /\ task[t].res # "raised"

\* C17 (as claimed): a "connected" event is fired one at a time, by a
\* connect() that has registered the disconnect callback on its connection,
\* subscribed, issued the alert-off write and just ended successfully, with
\* a keepalive task started by then.
C17_ConnectedOnlyAfterSequence ==
    [][connSignals' # connSignals =>
          /\ connSignals' = connSignals + 1
          /\ \E t \in Tasks : /\ task[t].pc = "write"
                              /\ task'[t].res = "ok"
                              /\ conn[task[t].c].cb
          /\ keepalive_task' # 0
          /\ ka'[keepalive_task'] = "running"]_vars

\* No connect() is waiting or running and no disconnect() is running.
NoConnectOrDisconnectInProgress ==
    \A t \in Tasks :
        task[t].pc \notin ({"lock"} \cup InFlightPcs
                            \cup {"d_write", "d_stop_notify", "d_disconnect", "d_aexit", "d_clear"})

\* C18 (as claimed): with no connect() or disconnect() in progress, every
\* connection the session has opened and that is still connected is the one
\* in the slot.
C18_NoLiveConnectionOutsideSlot ==
    NoConnectOrDisconnectInProgress =>
        \A c \in Conns : conn[c].st = "up" => client = c

\* C15 (as claimed): the scanner holds at most one callback of the session,
\* and the handle is present exactly when it holds one.
C15_OneRegistrationIffHandle ==
    /\ registrations <= 1
    /\ adv_remove <=> (registrations = 1)

\* C19: _adv_cb, for an advertisement of addr at the clock reading rd: one
\* that is not the session's, or comes less than attempt_min_interval after
\* _last_attempt, changes neither _last_attempt nor the scheduled connects;
\* one of the session's address that passes the gate sets _last_attempt to
\* rd, and with the session connected it schedules no connect.
C19_ConnectedAdvertAdvancesGate ==
    [][\A addr \in AdvAddresses : \A rd \in 0..MaxWatchReading :
          (rd >= last_attempt /\ AdvCb(addr, rd)) =>
              LET own == addr # <<>> /\ SameIgnoringCase(addr, ConfiguredMac)
                  passes == rd - last_attempt >= attempt_min_interval
              IN  /\ (~own \/ ~passes) =>
                        (last_attempt' = last_attempt /\ task' = task /\ nTasks' = nTasks)
                  /\ (own /\ passes) =>
                        /\ last_attempt' = rd
                        /\ IsConnected(client, conn) => (task' = task /\ nTasks' = nTasks)]_vars

\* The one connect the watch has scheduled has connected, and a later
\* advertisement has moved _last_attempt on without scheduling another.
C19_Witness ==
    /\ IsConnected(client, conn)
    /\ nTasks = 1
    /\ \E t \in Tasks : /\ task[t].origin = "adv"
                        /\ task[t].res = "ok"
                        /\ last_attempt >= task[t].at + attempt_min_interval

AlertInitSession ==
    /\ client = 1
    /\ conn[1] = [st |-> "up", cb |-> TRUE, nd |-> "none"]
    /\ nConns = 1
    /\ connect_lock = 0
    /\ keepalive_task = 1
    /\ ka[1] = "running"
    /\ nKA = 1
    /\ ~adv_remove
    /\ last_attempt = InitialLastAttempt
    /\ task[1] = [NoTask EXCEPT !.pc = "done", !.origin = "battery", !.res = "ok",
                                !.t1 = "tried"]
    /\ nTasks = 1
    /\ loopq = <<>>
    /\ connSignals = 1
    /\ discSignals = 0
    /\ completed = {1}

\* C14 (as claimed): when beep(true) and, after it has returned, beep(false)
\* have returned on a connected session, every discovered instance of the
\* alert characteristic has received the write of each of the two calls,
\* unless the write to that very instance raised, and the first call's
\* before the second's.
C14_BothWritesReachEveryInstance ==
    \A a, b \in Beeps :
        (/\ wr[a].st = "done" /\ wr[a].p = "02"
         /\ wr[b].st = "done" /\ wr[b].p = "00"
         /\ a \in wr[b].after)
        => \A i \in 1..targets :
              LET got(w) == {j \in 1..Len(received[i]) : received[i][j].by = w}
              IN  /\ wr[a].failed # i => got(a) # {}
                  /\ wr[b].failed # i => got(b) # {}
                  /\ \A j \in got(a) : \A k \in got(b) : j < k

\* C20: every turn the keepalive loop makes on the connected session begins
\* an alert-off write, whatever the alert characteristics have received from
\* beep.
C20_KeepaliveWritesOffRegardless ==
    [][turns' # turns =>
          /\ wr'[0].st = "writing"
          /\ wr'[0].p = "00"]_vars

\* An alert characteristic has received b"\x02" from beep(true) and next
\* b"\x00" from the keepalive loop, and beep(false) was not called.
C20_Witness ==
    /\ \A b \in Beeps : wr[b].p = "00" => wr[b].st = "none"
    /\ \E i \in Instances :
         \E j \in 1..(Len(received[i]) - 1) :
             /\ received[i][j].by \in Beeps
             /\ received[i][j].p = "02"
             /\ received[i][j + 1] = [p |-> "00", by |-> 0]

====
